---- MODULE Spec2Model ----
(***************************************************************************)
(* Code actions derived from compiler diagnostics                          *)
(* (server/src/codeActions.ts).                                            *)
(*                                                                         *)
(* A JavaScript string is a TLA+ string (TLC evaluates Len, \o, SubSeq,    *)
(* Head and Tail on strings), an array is a sequence, `string | null` is   *)
(* a sequence of length at most one, and the accumulator `codeActions` is  *)
(* a function whose domain is the set of file keys created so far.         *)
(* One call of findCodeActionsInDiagnosticsMessage is a run of steps: one  *)
(* step per extractor tried on a line, as the two nested loops take them.  *)
(***************************************************************************)
EXTENDS Integers, Sequences, FiniteSets, TLC

VARIABLES codeActions, pc, config, index, ext, budget, pool, before, last, tried

vars == <<codeActions, pc, config, index, ext, budget, pool, before, last, tried>>

(***************************************************************************)
(* Bounds of the model.                                                    *)
(***************************************************************************)
MaxCalls == 3
MaxLines == 3
MaxCases == 2
MaxFields == 2
MaxCol == 2

(***************************************************************************)
(* Characters.                                                             *)
(***************************************************************************)
Backtick == SubSeq("`'", 1, 1)

Whitespace == {" ", "\t", "\n", "\r"}

WordChars ==
  {"a","b","c","d","e","f","g","h","i","j","k","l","m","n","o","p","q","r","s",
   "t","u","v","w","x","y","z","A","B","C","D","E","F","G","H","I","J","K","L",
   "M","N","O","P","Q","R","S","T","U","V","W","X","Y","Z","0","1","2","3","4",
   "5","6","7","8","9","_"}

(***************************************************************************)
(* The string and array built-ins the module uses.                         *)
(***************************************************************************)
startsWith(s, p) == Len(p) <= Len(s) /\ SubSeq(s, 1, Len(p)) = p

endsWith(s, p) == Len(p) <= Len(s) /\ SubSeq(s, Len(s) - Len(p) + 1, Len(s)) = p

occursAt(s, p, i) == i + Len(p) - 1 <= Len(s) /\ SubSeq(s, i, i + Len(p) - 1) = p

includes(s, p) == \E i \in 1..Len(s) : occursAt(s, p, i)

\* 1-based position of the first occurrence of p in s, 0 when there is none.
indexOf(s, p) ==
  IF includes(s, p)
  THEN CHOOSE i \in 1..Len(s) :
         occursAt(s, p, i) /\ \A j \in 1..(i - 1) : ~occursAt(s, p, j)
  ELSE 0

trimStart(s) ==
  IF \A i \in 1..Len(s) : SubSeq(s, i, i) \in Whitespace THEN ""
  ELSE SubSeq(s, CHOOSE i \in 1..Len(s) :
                   /\ SubSeq(s, i, i) \notin Whitespace
                   /\ \A j \in 1..(i - 1) : SubSeq(s, j, j) \in Whitespace,
              Len(s))

trimEnd(s) ==
  IF \A i \in 1..Len(s) : SubSeq(s, i, i) \in Whitespace THEN ""
  ELSE SubSeq(s, 1, CHOOSE i \in 1..Len(s) :
                      /\ SubSeq(s, i, i) \notin Whitespace
                      /\ \A j \in (i + 1)..Len(s) : SubSeq(s, j, j) \in Whitespace)

trim(s) == trimEnd(trimStart(s))

\* String.prototype.slice(from, to) with 0-based, possibly negative, indices.
slice(s, from, to) ==
  LET n == Len(s)
      lo == IF from < 0 THEN (IF n + from < 0 THEN 0 ELSE n + from)
            ELSE (IF from > n THEN n ELSE from)
      hi == IF to < 0 THEN (IF n + to < 0 THEN 0 ELSE n + to)
            ELSE (IF to > n THEN n ELSE to)
  IN  SubSeq(s, lo + 1, hi)

\* Array.prototype.slice(from) and String.prototype.slice(from), from >= 0.
sliceFrom(a, from) == SubSeq(a, from + 1, Len(a))

\* String.prototype.split with a non-empty separator.
RECURSIVE split(_, _)
split(s, sep) ==
  LET i == indexOf(s, sep)
  IN  IF i = 0
      THEN <<s>>
      ELSE <<SubSeq(s, 1, i - 1)>> \o split(SubSeq(s, i + Len(sep), Len(s)), sep)

RECURSIVE join(_, _)
join(a, sep) ==
  IF Len(a) = 0 THEN ""
  ELSE IF Len(a) = 1 THEN a[1]
  ELSE a[1] \o sep \o join(Tail(a), sep)

\* String.prototype.replace with a string pattern: the first occurrence only.
replace(s, pat, rep) ==
  LET i == indexOf(s, pat)
  IN  IF i = 0 THEN s
      ELSE SubSeq(s, 1, i - 1) \o rep \o SubSeq(s, i + Len(pat), Len(s))

\* String.prototype.replace with a global one-character regex.
replaceAll(s, c, rep) == join(split(s, c), rep)

\* text.match(/ /g): the number of matches (null, when there is none, is 0 here;
\* the one use compares the length with a positive number).
countChar(s, c) == Cardinality({i \in 1..Len(s) : SubSeq(s, i, i) = c})

\* The longest prefix of s made of characters of cs (a greedy character class).
takeWhileIn(s, cs) ==
  IF \A i \in 1..Len(s) : SubSeq(s, i, i) \in cs THEN s
  ELSE SubSeq(s, 1, (CHOOSE i \in 1..Len(s) :
                       /\ SubSeq(s, i, i) \notin cs
                       /\ \A j \in 1..(i - 1) : SubSeq(s, j, j) \in cs) - 1)

\* " ".repeat(n)
RECURSIVE repeatSpace(_)
repeatSpace(n) == IF n <= 0 THEN "" ELSE " " \o repeatSpace(n - 1)

\* Array.from({length: n}).join(" "): n undefined elements, each joined as the
\* empty string, with one space between neighbours.
arrayFromLengthJoin(n) == join([i \in 1..n |-> ""], " ")

\* `string | null` and optional values: <<>> is null/undefined, <<v>> is v.
null == <<>>

some(v) == <<v>>

(***************************************************************************)
(* Positions, ranges, edits.                                               *)
(***************************************************************************)
Position(l, c) == [line |-> l, character |-> c]

Range(s, e) == [start |-> s, end |-> e]

TextEdit(r, t) == [range |-> r, newText |-> t]

\* wrapRangeInText without the adjustment for a zero-width range.
wrapRangeInTextNoOffset(range, wrapStart, wrapEnd) ==
  << [range |-> [start |-> range.start, end |-> range.start], newText |-> wrapStart],
     [range |-> [start |-> range.end, end |-> range.end], newText |-> wrapEnd] >>

wrapRangeInText(range, wrapStart, wrapEnd) ==
  LET offset == IF range.start.line = range.end.line
                   /\ range.start.character = range.end.character
                THEN 1 ELSE 0
      startPos == Position(range.start.line, range.start.character - offset)
      endPos == Position(range.end.line, range.end.character)
  IN  << TextEdit(Range(startPos, startPos), wrapStart),
         TextEdit(Range(endPos, endPos), wrapEnd) >>

\* The insertion placed at range.end instead of one character before it.
insertAtEndingChar(range, newText) ==
  << [range |-> [start |-> range.end, end |-> range.end], newText |-> newText] >>

insertBeforeEndingChar(range, newText) ==
  LET beforeEndingChar == Position(range.end.line, range.end.character - 1)
  IN  << TextEdit(Range(beforeEndingChar, beforeEndingChar), newText) >>

removeTrailingComma(text) ==
  LET str == trim(text)
  IN  IF endsWith(str, ",") THEN slice(str, 0, Len(str) - 1) ELSE str

\* The loop of extractTypename: the filtered lines, up to and including the
\* first one that holds "(defined as".
RECURSIVE arrFiltered(_)
arrFiltered(lines) ==
  IF Len(lines) = 0 THEN <<>>
  ELSE IF includes(lines[1], "(defined as")
       THEN << removeTrailingComma(split(lines[1], "(defined as")[1]) >>
       ELSE << removeTrailingComma(lines[1]) >> \o arrFiltered(Tail(lines))

extractTypename(lines) == trim(join(arrFiltered(lines), ""))

RECURSIVE takeUntil(_, _)
takeUntil(array, prefix) ==
  IF Len(array) = 0 \/ startsWith(array[1], prefix) THEN <<>>
  ELSE <<array[1]>> \o takeUntil(Tail(array), prefix)

(***************************************************************************)
(* The accumulator and the code actions stored in it.                      *)
(***************************************************************************)
NoCodeActions == [f \in {} |-> <<>>]

\* codeActions[file] = []
resetKey(ca, file) == (file :> <<>>) @@ ca

\* codeActions[file] = codeActions[file] || []
ensureKey(ca, file) == IF file \in DOMAIN ca THEN ca ELSE ca @@ (file :> <<>>)

CodeAction(title, file, edits, diagnostic) ==
  [ title |-> title,
    edit |-> [changes |-> (file :> edits)],
    diagnostics |-> <<diagnostic>>,
    kind |-> "quickfix",
    isPreferred |-> TRUE ]

\* codeActions[file] = codeActions[file] || []; codeActions[file].push(...)
pushAction(ca, c, codeAction) ==
  [ensureKey(ca, c.file) EXCEPT ![c.file] = Append(@, [range |-> c.range, codeAction |-> codeAction])]

\* What an extractor hands back: its return value, whether it threw instead,
\* and the accumulator as it left it.
Returned(found, ca) == [didFindAction |-> found, threw |-> FALSE, codeActions |-> ca]

Thrown(ca) == [didFindAction |-> FALSE, threw |-> TRUE, codeActions |-> ca]


(***************************************************************************)
(* The extractors.  Each takes the configuration c of the line it is tried *)
(* on (line, index, array, file, range, diagnostic) and the accumulator.   *)
(***************************************************************************)

\* /Did you mean ([A-Za-z0-9_]*)?/ on the line: null when "Did you mean "
\* does not occur; else the captured identifier, which is undefined when the
\* optional group could only match the empty string.
didYouMeanMatch(line) ==
  LET i == indexOf(line, "Did you mean ")
      word == takeWhileIn(sliceFrom(line, i - 1 + Len("Did you mean ")), WordChars)
  IN  IF i = 0 THEN null
      ELSE some(IF word = "" THEN null ELSE some(word))

didYouMeanAction(c, ca) ==
  IF startsWith(c.line, "Hint: Did you mean")
  THEN LET match == didYouMeanMatch(c.line)
       IN  IF match = null THEN Returned(FALSE, ca)
           ELSE LET suggestion == match[1]
                IN  IF suggestion # null
                    THEN Returned(TRUE,
                           pushAction(ca, c,
                             CodeAction("Replace with '" \o suggestion[1] \o "'", c.file,
                                        << TextEdit(c.range, suggestion[1]) >>,
                                        c.diagnostic)))
                    ELSE Returned(FALSE, ca)
  ELSE Returned(FALSE, ca)

\* line.trim().split("Some record fields are undefined: ")[1]?.split(" ")
firstRecordFieldNames(line) ==
  LET parts == split(trim(line), "Some record fields are undefined: ")
  IN  IF Len(parts) >= 2 THEN some(split(parts[2], " ")) ELSE null

\* array.slice(index + 1).forEach(line => recordFieldNames.push(...line.trim().split(" ")))
RECURSIVE restRecordFieldNames(_)
restRecordFieldNames(lines) ==
  IF Len(lines) = 0 THEN <<>>
  ELSE split(trim(lines[1]), " ") \o restRecordFieldNames(Tail(lines))

\* The text built for a multi-line record body.
RECURSIVE multilineFieldsText(_, _, _)
multilineFieldsText(names, i, paddingContentRecordField) ==
  IF i > Len(names) THEN ""
  ELSE (IF i = 1 THEN "  " ELSE paddingContentRecordField)
       \o names[i] \o ": assert false,\n"
       \o multilineFieldsText(names, i + 1, paddingContentRecordField)

RECURSIVE singleLineFields(_)
singleLineFields(names) ==
  IF Len(names) = 0 THEN <<>>
  ELSE << names[1] \o ": assert false" >> \o singleLineFields(Tail(names))

recordFieldsNewText(names, range) ==
  LET multilineRecordDefinitionBody == range.start.line # range.end.line
      paddingCharacters == IF multilineRecordDefinitionBody THEN range.end.character + 2 ELSE 0
      paddingContentRecordField == arrayFromLengthJoin(paddingCharacters)
      paddingContentEndBrace == arrayFromLengthJoin(range.end.character)
  IN  IF multilineRecordDefinitionBody
      THEN multilineFieldsText(names, 1, paddingContentRecordField) \o paddingContentEndBrace
      ELSE ", " \o join(singleLineFields(names), ", ")

addUndefinedRecordFields(c, ca) ==
  IF startsWith(c.line, "Some record fields are undefined:")
  THEN LET first == firstRecordFieldNames(c.line)
           rest == sliceFrom(c.array, c.index + 1)
       IN  IF first = null /\ Len(rest) > 0
           THEN Thrown(ca)   \* push on undefined: a TypeError
           ELSE IF first = null THEN Returned(FALSE, ca)
           ELSE LET recordFieldNames == first[1] \o restRecordFieldNames(rest)
                IN  Returned(TRUE,
                      pushAction(ca, c,
                        CodeAction("Add missing record fields", c.file,
                                   insertBeforeEndingChar(c.range,
                                     recordFieldsNewText(recordFieldNames, c.range)),
                                   c.diagnostic)))
  ELSE Returned(FALSE, ca)

\* /You can convert (\w*) to (\w*) with ([\w.]*).$/ on a line that starts with
\* "You can convert ": null, or the three captures.  \w* is followed by a
\* space, which is no word character, so each of the first two groups is the
\* longest run of word characters; the last group is followed by one
\* arbitrary character and the end of the line, so it is all but the last
\* character of the rest, which must be word characters or dots.  (The regex
\* is tried at the start of the line, where the guard found the phrase.)
simpleConversionMatch(line) ==
  LET r1 == sliceFrom(line, Len("You can convert "))
      from == takeWhileIn(r1, WordChars)
      r2 == sliceFrom(r1, Len(from))
      r3 == sliceFrom(r2, Len(" to "))
      to == takeWhileIn(r3, WordChars)
      r4 == sliceFrom(r3, Len(to))
      r5 == sliceFrom(r4, Len(" with "))
      fn == SubSeq(r5, 1, Len(r5) - 1)
  IN  IF /\ startsWith(r2, " to ")
         /\ startsWith(r4, " with ")
         /\ Len(r5) >= 1
         /\ SubSeq(r5, Len(r5), Len(r5)) \notin {"\n", "\r"}
         /\ takeWhileIn(fn, WordChars \cup {"."}) = fn
      THEN some(<<from, to, fn>>)
      ELSE null

simpleConversion(c, ca) ==
  IF startsWith(c.line, "You can convert ")
  THEN LET match == simpleConversionMatch(c.line)
       IN  IF match = null THEN Returned(FALSE, ca)
           ELSE LET from == match[1][1]
                    to == match[1][2]
                    fn == match[1][3]
                IN  Returned(TRUE,
                      pushAction(ca, c,
                        CodeAction("Convert " \o from \o " to " \o to \o " with " \o fn, c.file,
                                   wrapRangeInText(c.range, fn \o "(", ")"),
                                   c.diagnostic)))
  ELSE Returned(FALSE, ca)

applyUncurried(c, ca) ==
  IF startsWith(c.line, "This is an uncurried ReScript function. It must be applied with a dot.")
  THEN LET locOfOpenFnParens == Position(c.range.end.line, c.range.end.character + 1)
       IN  Returned(TRUE,
             pushAction(ca, c,
               CodeAction("Apply uncurried function call with dot", c.file,
                          << TextEdit(Range(locOfOpenFnParens, locOfOpenFnParens), ". ") >>,
                          c.diagnostic)))
  ELSE Returned(FALSE, ca)

RECURSIVE transformMatchPattern(_)
transformMatchPattern(matchPattern) ==
  IF includes(matchPattern, "(") \/ includes(matchPattern, "{")
  THEN null
  ELSE LET text == replaceAll(matchPattern, Backtick, "#")
           matched == countChar(text, " ")
       IN  IF matched > 2 THEN null
           ELSE IF includes(text, " ")
           THEN LET parts == split(text, " ")
                    variantText == parts[1]
                    payloadText == parts[2]
                    transformedPayloadText == transformMatchPattern(payloadText)
                IN  IF transformedPayloadText = null THEN null
                    ELSE some(variantText \o "(" \o payloadText \o ")")
           ELSE some(text)

\* allCasesAsOneLine.split("|").map(transformMatchPattern).filter(Boolean):
\* null and the empty string are dropped.
RECURSIVE transformAndFilter(_)
transformAndFilter(parts) ==
  IF Len(parts) = 0 THEN <<>>
  ELSE LET t == transformMatchPattern(parts[1])
       IN  (IF t = null \/ t = some("") THEN <<>> ELSE t) \o transformAndFilter(Tail(parts))

\* array.slice(index + 1).join("").trim(), then .slice(1, length - 1)
allCasesAsOneLine(array, i) ==
  LET joined == trim(join(sliceFrom(array, i + 1), ""))
  IN  slice(joined, 1, Len(joined) - 1)

missingCases(all) ==
  IF includes(all, "|")
  THEN transformAndFilter(split(all, "|"))
  ELSE transformMatchPattern(all)

RECURSIVE switchCases(_, _, _)
switchCases(cases, i, paddingContentSwitchCase) ==
  IF i > Len(cases) THEN <<>>
  ELSE << (IF i = 1 THEN "" ELSE paddingContentSwitchCase)
          \o "| " \o cases[i] \o " => assert false" >>
       \o switchCases(cases, i + 1, paddingContentSwitchCase)

missingCasesNewText(cases, range) ==
  LET paddingContentSwitchCase == arrayFromLengthJoin(range.end.character)
  IN  join(switchCases(cases, 1, paddingContentSwitchCase), "\n")
      \o "\n" \o paddingContentSwitchCase

simpleAddMissingCases(c, ca) ==
  IF startsWith(c.line, "You forgot to handle a possible case here, for example:")
  THEN LET all == allCasesAsOneLine(c.array, c.index)
       IN  IF includes(all, "(") THEN Returned(FALSE, ca)
           ELSE LET cases == missingCases(all)
                IN  IF Len(cases) = 0 THEN Returned(FALSE, ca)
                    ELSE Returned(TRUE,
                           pushAction(ca, c,
                             CodeAction("Insert missing cases", c.file,
                                        insertBeforeEndingChar(c.range,
                                          missingCasesNewText(cases, c.range)),
                                        c.diagnostic)))
  ELSE Returned(FALSE, ca)

\* .map((line) => line.replace("Somewhere wanted:", ""))
RECURSIVE stripWanted(_)
stripWanted(lines) ==
  IF Len(lines) = 0 THEN <<>>
  ELSE << replace(lines[1], "Somewhere wanted:", "") >> \o stripWanted(Tail(lines))

thisHasTypeArr(c) ==
  takeUntil(<< sliceFrom(c.line, Len("This has type:")) >> \o sliceFrom(c.array, c.index + 1),
            "Somewhere wanted:")

\* array.slice(thisHasTypeArr.length): the index of the trigger line left out.
somewhereWantedArrFromStart(c) ==
  stripWanted(sliceFrom(c.array, Len(thisHasTypeArr(c))))

somewhereWantedArr(c) ==
  stripWanted(sliceFrom(c.array, c.index + Len(thisHasTypeArr(c))))

\* No default for the primitive types.
defaultValueAssertFalse(somewhereWanted) == "assert false"

defaultValue(somewhereWanted) ==
  CASE somewhereWanted = "string" -> "\"-\""
    [] somewhereWanted = "bool" -> "false"
    [] somewhereWanted = "int" -> "-1"
    [] somewhereWanted = "float" -> "-1."
    [] OTHER -> "assert false"

simpleTypeMismatches(c, ca) ==
  IF startsWith(c.line, "This has type:")
  THEN LET thisHasType == extractTypename(thisHasTypeArr(c))
           somewhereWanted == extractTypename(somewhereWantedArr(c))
       IN  IF thisHasType = "option<" \o somewhereWanted \o ">"
           THEN Returned(TRUE,
                  pushAction(ca, c,
                    CodeAction("Unwrap optional value", c.file,
                               wrapRangeInText(c.range, "switch ",
                                 " { | None => " \o defaultValue(somewhereWanted)
                                 \o " | Some(v) => v }"),
                               c.diagnostic)))
           ELSE IF "option<" \o thisHasType \o ">" = somewhereWanted
           THEN Returned(TRUE,
                  pushAction(ca, c,
                    CodeAction("Wrap value in Some", c.file,
                               wrapRangeInText(c.range, "Some(", ")"),
                               c.diagnostic)))
           ELSE Returned(FALSE, ca)
  ELSE Returned(FALSE, ca)

(***************************************************************************)
(* The diagnostics the calls are made with.  `pool` names the family of    *)
(* messages a behaviour draws from; it is fixed by the initial state.      *)
(***************************************************************************)
Files == {"a.res", "b.res"}

Cols == 0..MaxCol

\* Ranges that start on line 0 and end on line 0 or 1, start not after end.
Ranges ==
  {Range(Position(0, c1), Position(l2, c2)) : <<c1, l2, c2>> \in
     {t \in Cols \X {0, 1} \X Cols : t[2] = 1 \/ t[1] <= t[3]}}

\* The ranges from the origin to each column of line 0 and of line 1.
EndRanges == {Range(Position(0, 0), Position(l, c)) : l \in {0, 1}, c \in Cols}

RECURSIVE SeqsUpTo(_, _)
SeqsUpTo(S, n) ==
  IF n = 0 THEN {<<>>}
  ELSE LET shorter == SeqsUpTo(S, n - 1)
       IN  shorter \cup {Append(q, x) : q \in {r \in shorter : Len(r) = n - 1}, x \in S}

NonEmptySeqsUpTo(S, n) == SeqsUpTo(S, n) \ {<<>>}

\* dispatch: every message of up to MaxLines lines over these lines.
DispatchLines ==
  { "Hint: Did you mean foo",
    "Some record fields are undefined:",
    "Some record fields are undefined: a",
    "You can convert int to float with Belt.Int.toFloat.",
    "This is an uncurried ReScript function. It must be applied with a dot.",
    "You forgot to handle a possible case here, for example:",
    "(A|B)",
    "This has type: string",
    "Somewhere wanted: option<string>" }

DispatchMessages == SeqsUpTo(DispatchLines, MaxLines)

\* session: a few whole messages, for runs of several calls on one accumulator.
SessionMessages ==
  { << "Hint: Did you mean foo" >>,
    << "Some record fields are undefined: a" >>,
    << "Some record fields are undefined:", "a" >>,
    << "You can convert int to float with Belt.Int.toFloat." >>,
    << "This is an uncurried ReScript function. It must be applied with a dot." >>,
    << "This has type: string", "Somewhere wanted: option<string>" >>,
    << "You forgot to handle a possible case here, for example:", "(A|B)" >>,
    << "You forgot to handle a possible case here, for example:", "(A (b, c))" >>,
    << "You forgot to handle a possible case here, for example:", "(M {n})" >>,
    << "The value foo can't be found" >> }

\* cases: the exhaustiveness trigger followed by up to MaxCases cases, in
\* parentheses on one line, in parentheses with a line break after the first
\* case, or bare.
ForgotLine == "You forgot to handle a possible case here, for example:"

SimpleCases == {"One", Backtick \o "Two"}

PayloadCases == {"Some x", Backtick \o "Ok _", "F g h", "I j k l", "M {n}"}

CasePatterns == SimpleCases \cup PayloadCases \cup {"P (q, r)"}

CaseSeqs == NonEmptySeqsUpTo(CasePatterns, MaxCases)

CasesOneLine(cs) == << ForgotLine, "(" \o join(cs, "|") \o ")" >>

CasesTwoLines(cs) ==
  << ForgotLine, "(" \o cs[1] \o "|", join(Tail(cs), "|") \o ")" >>

CasesBare(cs) == << ForgotLine, join(cs, "|") >>

CaseMessages ==
  {CasesOneLine(cs) : cs \in CaseSeqs}
  \cup {CasesTwoLines(cs) : cs \in {q \in CaseSeqs : Len(q) >= 2}}
  \cup {CasesBare(cs) : cs \in CaseSeqs}

\* fields: the record-fields trigger with up to MaxFields fields on its line,
\* alone or continued by one indented line of up to MaxFields fields.
FieldsLine == "Some record fields are undefined:"

FieldNames == {"a", "bc"}

FieldSeqs == NonEmptySeqsUpTo(FieldNames, MaxFields)

FieldsMessage(fs, more) ==
  IF Len(more) = 0
  THEN << FieldsLine \o " " \o join(fs, " ") >>
  ELSE << FieldsLine \o " " \o join(fs, " "), "  " \o join(more, " ") >>

FieldMessages == {FieldsMessage(fs, more) : fs \in FieldSeqs, more \in FieldSeqs \cup {<<>>}}

\* conv: the conversion hint, alone or after the two lines of a type mismatch.
ConvTypes == {"int", "float", "t"}

ConvFns == {"Belt.Int.toFloat", "float_of_int", "f"}

ConvLine(from, to, fn) == "You can convert " \o from \o " to " \o to \o " with " \o fn \o "."

ConvMessages ==
  {<< ConvLine(x, y, fn) >> : x \in ConvTypes, y \in ConvTypes, fn \in ConvFns}
  \cup {<< "This has type: " \o x, "Somewhere wanted: " \o y, ConvLine(x, y, fn) >> :
          x \in ConvTypes, y \in ConvTypes, fn \in ConvFns}

\* types: a type mismatch between two of these types, each on one line or
\* spread over several lines.
TypeNames ==
  { "string", "bool", "int", "float", "t",
    "option<string>", "option<bool>", "option<int>", "option<float>", "option<t>" }

\* The two pieces a type name is printed in when it is broken over two lines:
\* after "option<" when it starts so, else after its first character.
headOf(t) == IF startsWith(t, "option<") THEN "option<" ELSE SubSeq(t, 1, 1)

tailOf(t) == sliceFrom(t, Len(headOf(t)))

TypesOneLineEach(t, w) == << "This has type: " \o t, "Somewhere wanted: " \o w >>

TypesOwnLines(t, w) ==
  << "We've found a bug for you!", "This has type:", "  " \o t, "Somewhere wanted:", "  " \o w >>

TypesBroken(t, w) ==
  << "This has type:", "  " \o headOf(t) \o ",", "  " \o tailOf(t) \o ",",
     "Somewhere wanted:", "  " \o headOf(w), "  " \o tailOf(w) \o ", (defined as", "  foo)" >>

TypesDefinedAs(t, w) ==
  << "This has type: " \o headOf(t) \o ",", "  " \o tailOf(t) \o " (defined as", "  bar)",
     "Somewhere wanted: " \o headOf(w) \o ",", tailOf(w) \o " (defined as foo)" >>

TypeMessages ==
  {TypesOneLineEach(t, w) : t \in TypeNames, w \in TypeNames}
  \cup {TypesOwnLines(t, w) : t \in TypeNames, w \in TypeNames}
  \cup {TypesBroken(t, w) : t \in TypeNames, w \in TypeNames}
  \cup {TypesDefinedAs(t, w) : t \in TypeNames, w \in TypeNames}

Messages(p) ==
  CASE p = "session" -> SessionMessages
    [] p = "dispatch" -> DispatchMessages
    [] p = "cases" -> CaseMessages
    [] p = "fields" -> FieldMessages
    [] p = "conv" -> ConvMessages
    [] p = "types" -> TypeMessages

RangesOf(p) ==
  CASE p = "session" -> {Range(Position(0, 1), Position(1, 1))}
    [] p = "dispatch" -> {Range(Position(0, 1), Position(1, 1))}
    [] p = "cases" -> EndRanges
    [] p = "fields" -> Ranges
    [] p = "conv" -> Ranges
    [] p = "types" -> Ranges

FilesOf(p) == IF p = "session" THEN Files ELSE {"a.res"}

(***************************************************************************)
(* findCodeActionsInDiagnosticsMessage, step by step.                      *)
(***************************************************************************)
NumExtractors == 6

NoConfig == [diagnosticMessage |-> <<>>, file |-> "", range |-> Range(Position(0, 0), Position(0, 0)),
             diagnostic |-> [message |-> <<>>, range |-> Range(Position(0, 0), Position(0, 0))]]

NoStep == [index |-> 0, ext |-> 0, didFindAction |-> FALSE, threw |-> FALSE, prev |-> NoCodeActions]

InitWith(p, calls) ==
  /\ codeActions = NoCodeActions
  /\ pc = "idle"
  /\ config = NoConfig
  /\ index = 0
  /\ ext = 1
  /\ budget = calls
  /\ pool = p
  /\ before = NoCodeActions
  /\ last = NoStep
  /\ tried = <<>>

\* The configuration the loop body hands to an extractor.
extractorConfig ==
  [ line |-> config.diagnosticMessage[index + 1],
    index |-> index,
    array |-> config.diagnosticMessage,
    file |-> config.file,
    range |-> config.range,
    diagnostic |-> config.diagnostic ]

\* The call without the catch: a throw leaves the loops.
tryWithoutCatch(res) ==
  [didFindAction |-> res.didFindAction, pc |-> IF res.threw THEN "uncaught" ELSE "forEach"]

\* try { didFindAction = extractCodeAction(...) } catch (e) { console.error(e) }
tryCatch(res) ==
  [didFindAction |-> (~res.threw) /\ res.didFindAction, pc |-> "forEach"]

\* One iteration of the for loop over the extractors: extractor k has run on
\* line `index` with outcome res; break on a match, else the next extractor;
\* after the last extractor or a break, the next line.
forBody(k, res) ==
  LET out == tryCatch(res)
  IN  /\ pc = "forEach"
      /\ index < Len(config.diagnosticMessage)
      /\ ext = k
      /\ codeActions' = res.codeActions
      /\ pc' = out.pc
      /\ index' = IF out.didFindAction \/ k = NumExtractors THEN index + 1 ELSE index
      /\ ext' = IF out.didFindAction \/ k = NumExtractors THEN 1 ELSE k + 1
      /\ last' = [index |-> index, ext |-> k, didFindAction |-> res.didFindAction,
                  threw |-> res.threw, prev |-> codeActions]
      /\ tried' = Append(tried, [index |-> index, ext |-> k,
                                 didFindAction |-> out.didFindAction, threw |-> res.threw])
      /\ UNCHANGED <<config, budget, pool, before>>

Call ==
  /\ pc = "idle"
  /\ budget > 0
  /\ \E m \in Messages(pool), r \in RangesOf(pool), f \in FilesOf(pool) :
       config' = [diagnosticMessage |-> m, file |-> f, range |-> r,
                  diagnostic |-> [message |-> m, range |-> r]]
  /\ pc' = "forEach"
  /\ index' = 0
  /\ ext' = 1
  /\ budget' = budget - 1
  /\ before' = codeActions
  /\ last' = NoStep
  /\ tried' = <<>>
  /\ UNCHANGED <<codeActions, pool>>

TrySimpleTypeMismatches ==
  ext = 1 /\ pc = "forEach" /\ index < Len(config.diagnosticMessage)
  /\ forBody(1, simpleTypeMismatches(extractorConfig, codeActions))

TryDidYouMeanAction ==
  ext = 2 /\ pc = "forEach" /\ index < Len(config.diagnosticMessage)
  /\ forBody(2, didYouMeanAction(extractorConfig, codeActions))

TryAddUndefinedRecordFields ==
  ext = 3 /\ pc = "forEach" /\ index < Len(config.diagnosticMessage)
  /\ forBody(3, addUndefinedRecordFields(extractorConfig, codeActions))

TrySimpleConversion ==
  ext = 4 /\ pc = "forEach" /\ index < Len(config.diagnosticMessage)
  /\ forBody(4, simpleConversion(extractorConfig, codeActions))

TryApplyUncurried ==
  ext = 5 /\ pc = "forEach" /\ index < Len(config.diagnosticMessage)
  /\ forBody(5, applyUncurried(extractorConfig, codeActions))

TrySimpleAddMissingCases ==
  ext = 6 /\ pc = "forEach" /\ index < Len(config.diagnosticMessage)
  /\ forBody(6, simpleAddMissingCases(extractorConfig, codeActions))

\* forEach has passed the last line: the call returns.
Return ==
  /\ pc = "forEach"
  /\ index = Len(config.diagnosticMessage)
  /\ pc' = "idle"
  /\ UNCHANGED <<codeActions, config, index, ext, budget, pool, before, last, tried>>

Next ==
  \/ Call
  \/ TrySimpleTypeMismatches
  \/ TryDidYouMeanAction
  \/ TryAddUndefinedRecordFields
  \/ TrySimpleConversion
  \/ TryApplyUncurried
  \/ TrySimpleAddMissingCases
  \/ Return

Init == InitWith("session", MaxCalls)

Spec == Init /\ [][Next]_vars

InitDispatch == InitWith("dispatch", 1)

SpecDispatch == InitDispatch /\ [][Next]_vars

InitCases == InitWith("cases", 1)

SpecCases == InitCases /\ [][Next]_vars

InitFields == InitWith("fields", 1)

SpecFields == InitFields /\ [][Next]_vars

InitConv == InitWith("conv", 1)

SpecConv == InitConv /\ [][Next]_vars

InitTypes == InitWith("types", 1)

SpecTypes == InitTypes /\ [][Next]_vars

(***************************************************************************)
(* Properties.                                                             *)
(***************************************************************************)
listOf(ca, f) == IF f \in DOMAIN ca THEN ca[f] ELSE <<>>

isPrefix(a, b) == Len(a) <= Len(b) /\ SubSeq(b, 1, Len(a)) = a

\* The steps of the current call in which an extractor threw / matched.
Throws == {i \in DOMAIN tried : tried[i].threw}

Matches == {i \in DOMAIN tried : tried[i].didFindAction}

triedOn(l, e) == \E j \in DOMAIN tried : tried[j].index = l /\ tried[j].ext = e

\* C1: one call of findCodeActionsInDiagnosticsMessage appends at most one
\* code action to the accumulator, whatever the lines of the message are.
C1_AtMostOneActionPerCall ==
  Len(listOf(codeActions, config.file)) <= Len(listOf(before, config.file)) + 1

\* C2: an extractor that throws counts as a non-match.  Right after the throw
\* the call is still in its loops, at the next extractor of the same line,
\* with the accumulator as it was before the throwing extractor ran; and when
\* the call has returned, every extractor after the throwing one was tried on
\* that line and every later line was scanned.
C2_ThrowIsNonMatch ==
  /\ last.threw =>
       /\ pc = "forEach"
       /\ index = last.index
       /\ ext = last.ext + 1
       /\ codeActions = last.prev
  /\ pc # "uncaught"
  /\ pc = "idle" =>
       \A i \in Throws :
         /\ \A e \in (tried[i].ext + 1)..NumExtractors : triedOn(tried[i].index, e)
         /\ \A l \in (tried[i].index + 1)..(Len(config.diagnosticMessage) - 1) :
              triedOn(l, 1)

\* A call has returned in which addUndefinedRecordFields threw on a line that
\* is not the last one, and an extractor matched on a later line.
C2_Witness ==
  /\ pc = "idle"
  /\ \E i \in Throws :
       /\ tried[i].ext = 3
       /\ \E j \in Matches : tried[j].index > tried[i].index

\* C10: a call only appends to the list under its own file key.  The lists
\* under the other keys, and the set of those keys, are as before the call;
\* the list under the call's key starts with what it held before; and as long
\* as no extractor has matched, the accumulator is as before the call, with
\* no key created.
C10_AppendOnlyOwnKey ==
  /\ \A f \in Files \ {config.file} :
       /\ (f \in DOMAIN codeActions) <=> (f \in DOMAIN before)
       /\ listOf(codeActions, f) = listOf(before, f)
  /\ DOMAIN before \subseteq DOMAIN codeActions
  /\ DOMAIN codeActions \subseteq DOMAIN before \cup {config.file}
  /\ isPrefix(listOf(before, config.file), listOf(codeActions, config.file))
  /\ Matches = {} => codeActions = before

\* A call has appended to a list that already held an entry, while another
\* file's list holds entries too; and a call in which the exhaustiveness
\* extractor bailed out has returned without a match.
C10_Witness ==
  /\ pc = "idle"
  /\ Len(listOf(before, config.file)) >= 1
  /\ Len(listOf(codeActions, config.file)) > Len(listOf(before, config.file))
  /\ \E f \in Files \ {config.file} : Len(listOf(codeActions, f)) >= 1

\* The entry the last extractor step appended under the call's file key, and
\* whether it appended exactly one entry and changed nothing else.
lastEntry == listOf(codeActions, config.file)[Len(listOf(codeActions, config.file))]

appendedOne ==
  /\ last.didFindAction
  /\ config.file \in DOMAIN codeActions
  /\ Len(codeActions[config.file]) >= 1
  /\ codeActions = [ensureKey(last.prev, config.file) EXCEPT
                      ![config.file] = Append(@, lastEntry)]
  /\ lastEntry.range = config.range

appendedNothing == ~last.didFindAction /\ ~last.threw /\ codeActions = last.prev

\* The state right after extractor e has run on line l of the message.
justRan(e, l) == last.ext = e /\ last.index = l

\* The one zero-width edit at (line, character) with the given text.
editsAt(l, ch, text) ==
  << [range |-> [start |-> [line |-> l, character |-> ch],
                 end |-> [line |-> l, character |-> ch]],
      newText |-> text] >>

lastEdits == lastEntry.codeAction.edit.changes[config.file]

hashed(case) == replaceAll(case, Backtick, "#")

\* The arms for the cases `arms`, the closing delimiter being at column col.
RECURSIVE armsText(_, _)
armsText(arms, col) ==
  IF Len(arms) = 0 THEN ""
  ELSE "| " \o arms[1] \o " => assert false\n" \o repeatSpace(col) \o armsText(Tail(arms), col)

RECURSIVE hashedAll(_)
hashedAll(cs) == IF Len(cs) = 0 THEN <<>> ELSE <<hashed(cs[1])>> \o hashedAll(Tail(cs))

SimpleCaseSeqs == NonEmptySeqsUpTo(SimpleCases, MaxCases)

\* C3: for a parenthesised group of cases without spaces, on one line or
\* broken over two, and a range that ends at column >= 1, simpleAddMissingCases
\* appends one action whose only edit is zero-width at (end.line,
\* end.character - 1) and inserts the arms in order, backticks rewritten to
\* '#', each arm after the first and the closing delimiter padded to the
\* closing delimiter's column.
C3_MissingCasesArms ==
  \A cs \in SimpleCaseSeqs :
    ( /\ justRan(6, 0)
      /\ config.range.end.character >= 1
      /\ \/ config.diagnosticMessage = CasesOneLine(cs)
         \/ Len(cs) >= 2 /\ config.diagnosticMessage = CasesTwoLines(cs) )
    => /\ appendedOne
       /\ lastEdits = editsAt(config.range.end.line, config.range.end.character - 1,
                              armsText(hashedAll(cs), config.range.end.character - 1))

\* Two cases broken over two lines have been turned into arms for a closing
\* delimiter at column 1 or more.
C3_Witness ==
  /\ justRan(6, 0)
  /\ last.didFindAction
  /\ config.range.end.character >= 2
  /\ \E cs \in SimpleCaseSeqs :
       /\ Len(cs) >= 2
       /\ cs[1] # cs[2]
       /\ config.diagnosticMessage = CasesTwoLines(cs)

\* C4: a single case that is not wrapped in parentheses yields one arm that
\* names the whole case.
C4_BareSingleCase ==
  \A c \in SimpleCases :
    (justRan(6, 0) /\ config.diagnosticMessage = CasesBare(<<c>>))
    => /\ appendedOne
       /\ lastEdits[1].newText =
            armsText(<<hashed(c)>>, IF config.range.end.character = 0 THEN 0
                                    ELSE config.range.end.character - 1)

\* transformMatchPattern as the claim C5 states it.
statedTransform(case) ==
  IF includes(case, "{") \/ countChar(case, " ") > 1 THEN null
  ELSE IF countChar(case, " ") = 1
       THEN some(hashed(split(case, " ")[1]) \o "(" \o hashed(split(case, " ")[2]) \o ")")
       ELSE some(hashed(case))

RECURSIVE statedArms(_)
statedArms(cs) == IF Len(cs) = 0 THEN <<>> ELSE statedTransform(cs[1]) \o statedArms(Tail(cs))

ParenlessCaseSeqs == NonEmptySeqsUpTo(SimpleCases \cup PayloadCases, MaxCases)

\* C5: a case is accepted only without a brace and with at most one space;
\* without a space it is emitted with backticks rewritten, with one space as
\* Ctor(payload); a case with more than one space or with a brace gets no arm,
\* and when no case is left the extractor reports no match.
C5_AtMostOneSpace ==
  \A cs \in ParenlessCaseSeqs :
    (justRan(6, 0) /\ config.diagnosticMessage = CasesOneLine(cs))
    => IF Len(statedArms(cs)) = 0
       THEN appendedNothing
       ELSE /\ appendedOne
            /\ lastEdits[1].newText =
                 armsText(statedArms(cs), IF config.range.end.character = 0 THEN 0
                                          ELSE config.range.end.character - 1)

\* The fields fs, one per line, for a closing brace at column col.
RECURSIVE fieldsText(_, _, _)
fieldsText(fs, i, col) ==
  IF i > Len(fs) THEN repeatSpace(col)
  ELSE (IF i = 1 THEN "  " ELSE repeatSpace(col + 2))
       \o fs[i] \o ": assert false,\n" \o fieldsText(fs, i + 1, col)

\* C6: for the fields of the trigger line and of its continuation line, and a
\* range that spans several lines and ends at column >= 1,
\* addUndefinedRecordFields appends one action whose only edit is zero-width at
\* (end.line, end.character - 1); it puts each field on its own line, the first
\* after two spaces, the later ones two columns right of the closing brace's
\* column, and ends with padding up to the closing brace's column.
C6_MultilineRecordFields ==
  justRan(3, 0) =>
    \A fs \in FieldSeqs, more \in FieldSeqs \cup {<<>>} :
      ( /\ config.diagnosticMessage = FieldsMessage(fs, more)
        /\ config.range.start.line # config.range.end.line
        /\ config.range.end.character >= 1 )
      => /\ appendedOne
         /\ lastEdits = editsAt(config.range.end.line, config.range.end.character - 1,
                                fieldsText(fs \o more, 1, config.range.end.character - 1))

\* Fields continued on a second line have been inserted for a multi-line
\* range whose closing brace is at column 1 or more.
C6_Witness ==
  /\ justRan(3, 0)
  /\ last.didFindAction
  /\ config.range.start.line # config.range.end.line
  /\ config.range.end.character >= 2
  /\ Len(config.diagnosticMessage) = 2
  /\ \E fs \in FieldSeqs : Len(fs) >= 2 /\ config.diagnosticMessage[1] = FieldsLine \o " " \o join(fs, " ")

\* C7: for a line 'You can convert A to B with F.', simpleConversion appends
\* one action with exactly two zero-width edits: 'F(' at the start of the
\* range, one character earlier when the range is a zero-width point, and ')'
\* at the end of the range.
C7_ConversionWrap ==
  last.ext = 4 =>
    \A x \in ConvTypes, y \in ConvTypes, fn \in ConvFns :
      config.diagnosticMessage[last.index + 1] = ConvLine(x, y, fn)
      => /\ appendedOne
         /\ lastEdits =
              editsAt(config.range.start.line,
                      config.range.start.character
                        - (IF config.range.start = config.range.end THEN 1 ELSE 0),
                      fn \o "(")
              \o editsAt(config.range.end.line, config.range.end.character, ")")

\* A conversion hint on the third line of a message has been turned into a
\* wrap of a zero-width range that is not at column 0.
C7_Witness ==
  /\ justRan(4, 2)
  /\ last.didFindAction
  /\ config.range.start = config.range.end
  /\ config.range.start.character >= 1

statedDefault(w) ==
  CASE w = "string" -> "\"-\""
    [] w = "bool" -> "false"
    [] w = "int" -> "-1"
    [] w = "float" -> "-1."
    [] OTHER -> "assert false"

wrapEdits(open, close) ==
  editsAt(config.range.start.line,
          config.range.start.character
            - (IF config.range.start = config.range.end THEN 1 ELSE 0),
          open)
  \o editsAt(config.range.end.line, config.range.end.character, close)

\* What simpleTypeMismatches is to do for actual type t and wanted type w.
mismatchOutcome(t, w) ==
  IF t = "option<" \o w \o ">"
  THEN /\ appendedOne
       /\ lastEdits = wrapEdits("switch ", " { | None => " \o statedDefault(w) \o " | Some(v) => v }")
  ELSE IF w = "option<" \o t \o ">"
  THEN /\ appendedOne
       /\ lastEdits = wrapEdits("Some(", ")")
  ELSE appendedNothing

\* The configuration of the line the last extractor step ran on.
lastConfig ==
  [ line |-> config.diagnosticMessage[last.index + 1],
    index |-> last.index,
    array |-> config.diagnosticMessage,
    file |-> config.file,
    range |-> config.range,
    diagnostic |-> config.diagnostic ]

\* C8: with actual type T and wanted type W, simpleTypeMismatches wraps the
\* range in a switch with the default for W when T is option<W>, in Some( )
\* when W is option<T>, and appends nothing and reports no match otherwise.
C8_TypeMismatchOutcome ==
  justRan(1, 0) =>
    \A t \in TypeNames, w \in TypeNames :
      config.diagnosticMessage = TypesOneLineEach(t, w)
      => /\ extractTypename(thisHasTypeArr(lastConfig)) = t
         /\ extractTypename(somewhereWantedArr(lastConfig)) = w
         /\ mismatchOutcome(t, w)

\* An option<int> where an int is wanted has been unwrapped with a switch.
C8_Witness ==
  /\ justRan(1, 0)
  /\ last.didFindAction
  /\ config.diagnosticMessage = TypesOneLineEach("option<int>", "int")
  /\ config.range.start # config.range.end

\* C9: when the two types are spread over several lines, with trailing commas
\* and a defined-as clause, simpleTypeMismatches derives the same two type
\* names and appends the same action as for the message that has each type on
\* one line.
C9_MultilineTypes ==
  last.ext = 1 =>
    \A t \in TypeNames, w \in TypeNames :
      ( \/ justRan(1, 1) /\ config.diagnosticMessage = TypesOwnLines(t, w)
        \/ justRan(1, 0) /\ config.diagnosticMessage = TypesBroken(t, w)
        \/ justRan(1, 0) /\ config.diagnosticMessage = TypesDefinedAs(t, w) )
      => /\ extractTypename(thisHasTypeArr(lastConfig)) = t
         /\ extractTypename(somewhereWantedArr(lastConfig)) = w
         /\ mismatchOutcome(t, w)

\* A string broken over lines, where an option<string> broken over lines with
\* a defined-as clause is wanted, has been wrapped in Some( ).
C9_Witness ==
  /\ justRan(1, 0)
  /\ last.didFindAction
  /\ config.diagnosticMessage = TypesBroken("string", "option<string>")

\* The character positions of every edit of every entry in the accumulator.
editCharacters ==
  UNION { UNION { UNION { {e.range.start.character, e.range.end.character} :
                          e \in {entry.codeAction.edit.changes[f][i] :
                                 i \in 1..Len(entry.codeAction.edit.changes[f])} } :
                  entry \in {codeActions[f][j] : j \in 1..Len(codeActions[f])} } :
          f \in DOMAIN codeActions }

\* C11: for every range with non-negative positions and start not after end,
\* every edit emitted by an extractor has non-negative character positions,
\* also the wrap edits on a zero-width range at column 0.
C11_NonNegativeEditPositions ==
  ( /\ config.range.start.character >= 0
    /\ config.range.end.character >= 0
    /\ \/ config.range.start.line < config.range.end.line
       \/ /\ config.range.start.line = config.range.end.line
          /\ config.range.start.character <= config.range.end.character )
  => \A ch \in editCharacters : ch >= 0

====
